---- MODULE Spec2Model ----
(***************************************************************************)
(* Model of torii's Component object (crates/torii/src/graphql/object/     *)
(* component.rs): the root `component(id)` resolver, the nested `storage`  *)
(* resolver, the `Storage` union and the value mapping of a component row. *)
(*                                                                         *)
(* Strings the code inspects (ids, names, timestamps) are sequences of     *)
(* one-character strings; opaque column values are plain strings.          *)
(***************************************************************************)
EXTENDS Integers, Sequences, FiniteSets, TLC

\* Number of concurrent `component { storage }` queries.
NumQueries == 2
\* Number of connections of the store's pool.
PoolSize == 1

Queries == 1..NumQueries

VARIABLES
    components,       \* the `components` table, rows in insertion order
    storages,         \* the storage tables: records [table, component_id, cols]
    pending,          \* rows the indexer has not written yet
    storage_names,    \* ComponentObject.storage_names (fixed at schema build)
    conns,            \* conns[q]: pool connections checked out by query q
    pc,               \* pc[q]: position of query q in its resolvers
    arg,              \* arg[q]: the `id` argument value of the root field
    id,               \* id[q]: the lookup key bound into the components query
    root_outcome,     \* root_outcome[q]: "unresolved" | "value" | "null" | "error"
    root_error,       \* root_error[q]: the root resolver's error ("" if none)
    row_seen,         \* row_seen[q]: "unknown" | "row" | "norow" at the root fetch
    component_values, \* component_values[q]: the root's ValueMapping (<<>> if none)
    nested_locals,    \* nested_locals[q]: id, type_name, field_type_mapping
    storage_value,    \* storage_value[q]: [resolved, values, type_tag]
    nested_error,     \* nested_error[q]: the nested resolver's error ("" if none)
    acquired,         \* acquired[q]: acquisitions attempted, per resolver
    queried,          \* queried[q]: store queries issued, per resolver
    idle_held         \* queries that did store-free work holding a connection

vars == <<components, storages, pending, storage_names, conns, pc, arg, id,
          root_outcome, root_error, row_seen, component_values, nested_locals,
          storage_value, nested_error, acquired, queried, idle_held>>

-----------------------------------------------------------------------------
(* Strings *)

DQ == "\""
SQ == "'"

Range(s) == {s[i] : i \in 1..Len(s)}

RECURSIVE SumOver(_, _)
SumOver(f, S) ==
    IF S = {} THEN 0
    ELSE LET x == CHOOSE y \in S : TRUE IN f[x] + SumOver(f, S \ {x})

Lower(c) ==
    CASE c = "P" -> "p"
      [] c = "M" -> "m"
      [] c = "S" -> "s"
      [] OTHER -> c

ToLowercase(s) == [i \in 1..Len(s) |-> Lower(s[i])]

\* utils::remove_quotes: every quote character of the string is dropped.
remove_quotes(s) == SelectSeq(s, LAMBDA c : c \notin {DQ, SQ})

\* utils::format_name: (lower-cased object name, type name).
format_name(input) == [name |-> ToLowercase(input), type_name |-> input]

-----------------------------------------------------------------------------
(* Values and value mappings *)

StringValue(s) == [kind |-> "String", str |-> s]
NumberValue == [kind |-> "Number", str |-> <<>>]

Keys(mapping) == [i \in 1..Len(mapping) |-> mapping[i][1]]

HasKey(mapping, k) == \E i \in 1..Len(mapping) : mapping[i][1] = k

Get(mapping, k) == mapping[CHOOSE i \in 1..Len(mapping) : mapping[i][1] = k][2]

\* utils::extract_value::extract::<String>
extract(values, k) ==
    IF ~HasKey(values, k) THEN [ok |-> FALSE, err |-> "FieldMissing"]
    ELSE IF Get(values, k).kind # "String" THEN [ok |-> FALSE, err |-> "TypeMismatch"]
    ELSE [ok |-> TRUE, val |-> Get(values, k).str]

-----------------------------------------------------------------------------
(* Timestamps: chrono's DateTime<Utc>::to_rfc3339_opts *)

Digits == <<"0", "1", "2", "3", "4", "5", "6", "7", "8", "9">>

Digit(n) == Digits[(n % 10) + 1]

Pad2(n) == <<Digit(n \div 10), Digit(n)>>

Pad3(n) == <<Digit(n \div 100)>> \o Pad2(n % 100)

Pad4(n) == Pad2(n \div 100) \o Pad2(n % 100)

Fraction(nano, secform) ==
    CASE secform = "Secs" -> <<>>
      [] secform = "Millis" -> <<".">> \o Pad3(nano \div 1000000)
      [] OTHER -> IF nano = 0 THEN <<>> ELSE <<".">> \o Pad3(nano \div 1000000)

to_rfc3339_opts(dt, secform, use_z) ==
    Pad4(dt.year) \o <<"-">> \o Pad2(dt.month) \o <<"-">> \o Pad2(dt.day)
    \o <<"T">> \o Pad2(dt.hour) \o <<":">> \o Pad2(dt.minute)
    \o <<":">> \o Pad2(dt.second) \o Fraction(dt.nano, secform)
    \o (IF use_z THEN <<"Z">> ELSE <<"+", "0", "0", ":", "0", "0">>)

created_at_text_offset(dt) == to_rfc3339_opts(dt, "Secs", FALSE)

\* component.created_at.to_rfc3339_opts(chrono::SecondsFormat::Secs, true)
created_at_text(dt) == to_rfc3339_opts(dt, "Secs", TRUE)

-----------------------------------------------------------------------------
(* ComponentObject *)

\* ComponentObject::new: the declared field type mapping.
field_type_mapping ==
    << <<"id", "ID">>,
       <<"name", "String">>,
       <<"address", "Address">>,
       <<"classHash", "FieldElement">>,
       <<"transactionHash", "FieldElement">>,
       <<"storageDefinition", "String">>,
       <<"createdAt", "DateTime">> >>

value_mapping_swapped(component) ==
    << <<"id", StringValue(component.id)>>,
       <<"name", StringValue(component.name)>>,
       <<"address", StringValue(component.address)>>,
       <<"transactionHash", StringValue(component.class_hash)>>,
       <<"classHash", StringValue(component.transaction_hash)>>,
       <<"storageDefinition", StringValue(component.storage_definition)>>,
       <<"createdAt", StringValue(created_at_text(component.created_at))>> >>

value_mapping(component) ==
    << <<"id", StringValue(component.id)>>,
       <<"name", StringValue(component.name)>>,
       <<"address", StringValue(component.address)>>,
       <<"classHash", StringValue(component.class_hash)>>,
       <<"transactionHash", StringValue(component.transaction_hash)>>,
       <<"storageDefinition", StringValue(component.storage_definition)>>,
       <<"createdAt", StringValue(created_at_text(component.created_at))>> >>

\* Union::possible_type keeps an insertion-ordered set of type names.
possible_type(union, type_name) ==
    IF type_name \in Range(union.possible_types) THEN union
    ELSE [union EXCEPT !.possible_types = Append(@, type_name)]

RECURSIVE fold_unions(_, _)
fold_unions(union, names) ==
    IF names = <<>> THEN union
    ELSE fold_unions(possible_type(union, format_name(Head(names)).type_name),
                     Tail(names))

unions_skip_first(names) ==
    << fold_unions([name |-> "Storage", possible_types |-> <<>>],
                   IF names = <<>> THEN names ELSE Tail(names)) >>

\* ComponentObject::unions
unions(names) == << fold_unions([name |-> "Storage", possible_types |-> <<>>], names) >>

-----------------------------------------------------------------------------
(* The backing store *)

Ok(v) == [ok |-> TRUE, val |-> v]

Err(e) == [ok |-> FALSE, err |-> e]

\* sqlx fetch_one + FromRow for Component: exactly one decoded row or an error.
fetch_one(table, key) ==
    LET hits == {i \in 1..Len(table) : table[i].id = key}
    IN  IF hits = {} THEN Err("RowNotFound")
        ELSE LET row == table[CHOOSE i \in hits : \A j \in hits : i <= j]
             IN  IF row.nulls # {} THEN Err("ColumnDecode") ELSE Ok(row)

\* component_by_id: `fetch_one(conn).await?` then value_mapping.
component_by_id(table, key, store_ok) ==
    IF ~store_ok THEN Err("Store")
    ELSE LET fetched == fetch_one(table, key)
         IN  IF fetched.ok THEN Ok(value_mapping(fetched.val)) ELSE Err(fetched.err)

ScalarOf(token) ==
    CASE token = "Felt" -> "FieldElement"
      [] token = "Address" -> "Address"
      [] token = "String" -> "String"
      [] token = "ID" -> "ID"
      [] token = "DateTime" -> "DateTime"
      [] OTHER -> ""

\* storage::type_mapping_from_definition: the definition is a list of
\* (field_name, field_type) pairs; empty, duplicate and unknown are errors.
type_mapping_from_definition(definition) ==
    IF definition = <<>> THEN Err("ParseError")
    ELSE IF \E i, j \in 1..Len(definition) : i # j /\ definition[i][1] = definition[j][1]
         THEN Err("ParseError")
    ELSE IF \E i \in 1..Len(definition) : ScalarOf(definition[i][2]) = ""
         THEN Err("ParseError")
    ELSE Ok([i \in 1..Len(definition) |->
                <<definition[i][1], ScalarOf(definition[i][2])>>])

\* storage::storage_by_column: the row of table `type_name` whose key column
\* equals `key`, decoded field by field of the supplied type mapping.
storage_by_column(tables, column, key, type_name, mapping, store_ok) ==
    IF ~store_ok THEN Err("Store")
    ELSE LET hits == {s \in tables : s.table = type_name /\ s[column] = key}
         IN  IF hits = {} THEN Err("RowNotFound")
             ELSE LET row == CHOOSE s \in hits : TRUE
                  IN  IF \E i \in 1..Len(mapping) : mapping[i][1] \notin DOMAIN row.cols
                      THEN Err("ColumnNotFound")
                      ELSE Ok([i \in 1..Len(mapping) |->
                                 <<mapping[i][1], StringValue(row.cols[mapping[i][1]])>>])

-----------------------------------------------------------------------------
(* Resolver steps *)

root_lookup_key_raw(argument) == argument.str

\* resolvers: `remove_quotes(ctx.args.try_get("id")?.string()?)`
root_lookup_key(argument) == remove_quotes(argument.str)

nested_prepare_defaulting(parent) ==
    LET e_id == extract(parent, "id")
        e_def == extract(parent, "storageDefinition")
        e_name == extract(parent, "name")
        parsed == IF e_def.ok THEN type_mapping_from_definition(e_def.val)
                  ELSE Err("ParseError")
    IN  Ok([id |-> IF e_id.ok THEN e_id.val ELSE <<>>,
            type_name |-> IF e_name.ok THEN e_name.val ELSE <<>>,
            field_type_mapping |-> IF parsed.ok THEN parsed.val ELSE <<>>])

\* nested_fields: the three `extract(...)?` and `type_mapping_from_definition(...)?`
nested_prepare(parent) ==
    LET e_id == extract(parent, "id")
        e_def == extract(parent, "storageDefinition")
        e_name == extract(parent, "name")
    IN  IF ~e_id.ok THEN Err(e_id.err)
        ELSE IF ~e_def.ok THEN Err(e_def.err)
        ELSE IF ~e_name.ok THEN Err(e_name.err)
        ELSE LET parsed == type_mapping_from_definition(e_def.val)
             IN  IF ~parsed.ok THEN Err(parsed.err)
                 ELSE Ok([id |-> e_id.val, type_name |-> e_name.val,
                          field_type_mapping |-> parsed.val])

NoStorage == [resolved |-> FALSE, values |-> <<>>, type_tag |-> <<>>]

nested_result_lowercased(storage_values, locals) ==
    [resolved |-> TRUE, values |-> storage_values,
     type_tag |-> format_name(locals.type_name).name]

\* nested_fields: `FieldValue::with_type(FieldValue::owned_any(storage_values), type_name)`
nested_result(storage_values, locals) ==
    [resolved |-> TRUE, values |-> storage_values, type_tag |-> locals.type_name]

Holding == {"r_conn", "r_fetch", "n_conn", "n_fetch"}

conn_after_leak_on_error(next_pc, held) ==
    IF next_pc \in {"r_ok", "n_ok"} THEN 0 ELSE held

conn_after_kept_by_root(next_pc, held) ==
    IF next_pc \in {"r_err", "n_ok", "n_err"} THEN 0 ELSE held

\* `conn` is a local of the resolver's async block: it is dropped, and the
\* connection returned to the pool, when the block ends on any path.
conn_after(next_pc, held) == IF next_pc \in Holding THEN held ELSE 0

on_store_error_retry(resolver) == IF resolver = "root" THEN "r_start" ELSE "r_ok"

\* `.await?`: a store error ends the resolver with that error.
on_store_error(resolver) == IF resolver = "root" THEN "r_err" ELSE "n_err"

CheckedOut == SumOver(conns, Queries)

-----------------------------------------------------------------------------
(* Rows the indexer writes *)

Id1 == <<"0", "x", "1">>
Id2 == <<"0", "x", "2">>
Id3 == <<"0", "x", "3">>
Id4 == <<"0", "x", "4">>

NamePos == <<"P", "o", "s">>
NameMv == <<"M", "v">>
NameSc == <<"S", "c">>

\* A well-formed component with its storage row.
Seed1 ==
    [component |->
        [id |-> Id1, name |-> NamePos, address |-> "0xa1", class_hash |-> "0xc1",
         transaction_hash |-> "0xf1",
         storage_definition |-> << <<"x", "Felt">>, <<"y", "Felt">> >>,
         created_at |-> [year |-> 2024, month |-> 1, day |-> 1, hour |-> 0,
                         minute |-> 0, second |-> 0, nano |-> 0],
         nulls |-> {}],
     storage |-> {[table |-> NamePos, component_id |-> Id1,
                   cols |-> [y |-> "0x7", x |-> "0x5"]]}]

\* A second well-formed component, created at a sub-second instant.
Seed2 ==
    [component |->
        [id |-> Id2, name |-> NameMv, address |-> "0xa2", class_hash |-> "0xc2",
         transaction_hash |-> "0xf2",
         storage_definition |-> << <<"left", "Felt">> >>,
         created_at |-> [year |-> 2023, month |-> 12, day |-> 31, hour |-> 23,
                         minute |-> 59, second |-> 59, nano |-> 500000000],
         nulls |-> {}],
     storage |-> {[table |-> NameMv, component_id |-> Id2, cols |-> [left |-> "0x9"]]}]

\* A component whose storage_definition repeats a field name.
Seed3 ==
    [component |->
        [id |-> Id3, name |-> NameSc, address |-> "0xa3", class_hash |-> "0xc3",
         transaction_hash |-> "0xf3",
         storage_definition |-> << <<"x", "Felt">>, <<"x", "Address">> >>,
         created_at |-> [year |-> 2024, month |-> 2, day |-> 29, hour |-> 12,
                         minute |-> 30, second |-> 7, nano |-> 0],
         nulls |-> {}],
     storage |-> {[table |-> NameSc, component_id |-> Id3, cols |-> [x |-> "0x1"]]}]

\* A second component of type Pos, with a NULL address column.
Seed4 ==
    [component |->
        [id |-> Id4, name |-> NamePos, address |-> "", class_hash |-> "0xc4",
         transaction_hash |-> "0xf4",
         storage_definition |-> << <<"x", "Felt">>, <<"y", "Felt">> >>,
         created_at |-> [year |-> 2024, month |-> 1, day |-> 1, hour |-> 0,
                         minute |-> 0, second |-> 0, nano |-> 0],
         nulls |-> {"address"}],
     storage |-> {}]

Wrap(s, quote) == <<quote>> \o s \o <<quote>>

\* Argument values of `component(id:)`: plain, quoted, and not a string.
AllArgs ==
    {StringValue(Id1), StringValue(Wrap(Id1, DQ)), StringValue(Wrap(Id1, SQ)),
     StringValue(Id2), StringValue(Wrap(Id2, DQ)),
     StringValue(Id3), StringValue(Wrap(Id3, DQ)),
     StringValue(Wrap(Id4, DQ)), NumberValue}

FewArgs == {StringValue(Wrap(Id1, DQ)), StringValue(Id2)}

\* The distinct component names of the store, in insertion order.
RECURSIVE distinct_names(_, _)
distinct_names(table, seen) ==
    IF table = <<>> THEN seen
    ELSE distinct_names(Tail(table),
                        IF Head(table).name \in Range(seen) THEN seen
                        ELSE Append(seen, Head(table).name))

-----------------------------------------------------------------------------
(* Initial states *)

Counts == [root |-> 0, nested |-> 0]

InitCommon ==
    /\ components = <<Seed1.component>>
    /\ storages = Seed1.storage
    /\ storage_names = distinct_names(components, <<>>)
    /\ conns = [q \in Queries |-> 0]
    /\ id = [q \in Queries |-> <<>>]
    /\ root_outcome = [q \in Queries |-> "unresolved"]
    /\ root_error = [q \in Queries |-> ""]
    /\ row_seen = [q \in Queries |-> "unknown"]
    /\ component_values = [q \in Queries |-> <<>>]
    /\ nested_locals = [q \in Queries |-> <<>>]
    /\ storage_value = [q \in Queries |-> NoStorage]
    /\ nested_error = [q \in Queries |-> ""]
    /\ acquired = [q \in Queries |-> Counts]
    /\ queried = [q \in Queries |-> Counts]
    /\ idle_held = {}

\* Two queries over every argument value, while the indexer writes three rows.
InitArguments ==
    /\ pending = <<Seed2, Seed3, Seed4>>
    /\ pc = [q \in Queries |-> IF q \in {1, 2} THEN "r_start" ELSE "off"]
    /\ arg \in [Queries -> AllArgs]
    /\ \A q \in Queries : pc[q] = "off" => arg[q] = NumberValue

\* Every query at once over two argument values, while the indexer writes one row.
InitConcurrent ==
    /\ pending = <<Seed2>>
    /\ pc = [q \in Queries |-> "r_start"]
    /\ arg \in [Queries -> FewArgs]

Init == InitCommon /\ (InitArguments \/ InitConcurrent)

-----------------------------------------------------------------------------
(* The indexer and the schema build *)

\* The indexer writes the next component row and its storage row.
IndexComponent ==
    /\ pending # <<>>
    /\ components' = Append(components, Head(pending).component)
    /\ storages' = storages \cup Head(pending).storage
    /\ pending' = Tail(pending)
    /\ UNCHANGED <<storage_names, conns, pc, arg, id, root_outcome, root_error,
                   row_seen, component_values, nested_locals, storage_value,
                   nested_error, acquired, queried, idle_held>>

\* The schema is rebuilt: ComponentObject::new(storage_names) over the store's names.
RebuildSchema ==
    /\ storage_names # distinct_names(components, <<>>)
    /\ storage_names' = distinct_names(components, <<>>)
    /\ UNCHANGED <<components, storages, pending, conns, pc, arg, id, root_outcome,
                   root_error, row_seen, component_values, nested_locals,
                   storage_value, nested_error, acquired, queried, idle_held>>

-----------------------------------------------------------------------------
(* The root `component` resolver *)

\* `ctx.data::<Pool<Sqlite>>()?.acquire().await?` returns a connection.
RootAcquire(q) ==
    /\ pc[q] = "r_start"
    /\ CheckedOut < PoolSize
    /\ conns' = [conns EXCEPT ![q] = @ + 1]
    /\ acquired' = [acquired EXCEPT ![q].root = @ + 1]
    /\ pc' = [pc EXCEPT ![q] = "r_conn"]
    /\ UNCHANGED <<components, storages, pending, storage_names, arg, id,
                   root_outcome, root_error, row_seen, component_values,
                   nested_locals, storage_value, nested_error, queried, idle_held>>

\* `acquire().await?` fails (pool closed or timed out).
RootAcquireFails(q) ==
    /\ pc[q] = "r_start"
    /\ acquired' = [acquired EXCEPT ![q].root = @ + 1]
    /\ pc' = [pc EXCEPT ![q] = on_store_error("root")]
    /\ conns' = [conns EXCEPT ![q] = conn_after(on_store_error("root"), @)]
    /\ root_outcome' = [root_outcome EXCEPT ![q] = "error"]
    /\ root_error' = [root_error EXCEPT ![q] = "Store"]
    /\ UNCHANGED <<components, storages, pending, storage_names, arg, id, row_seen,
                   component_values, nested_locals, storage_value, nested_error,
                   queried, idle_held>>

\* The `id` argument is read and normalised, then the components query is sent.
RootIssue(q) ==
    /\ pc[q] = "r_conn"
    /\ idle_held' = IF conns[q] > 0 THEN idle_held \cup {q} ELSE idle_held
    /\ IF arg[q].kind = "String"
       THEN /\ id' = [id EXCEPT ![q] = root_lookup_key(arg[q])]
            /\ queried' = [queried EXCEPT ![q].root = @ + 1]
            /\ pc' = [pc EXCEPT ![q] = "r_fetch"]
            /\ conns' = [conns EXCEPT ![q] = conn_after("r_fetch", @)]
            /\ UNCHANGED <<root_outcome, root_error>>
       ELSE /\ pc' = [pc EXCEPT ![q] = "r_err"]
            /\ conns' = [conns EXCEPT ![q] = conn_after("r_err", @)]
            /\ root_outcome' = [root_outcome EXCEPT ![q] = "error"]
            /\ root_error' = [root_error EXCEPT ![q] = "TypeMismatch"]
            /\ UNCHANGED <<id, queried>>
    /\ UNCHANGED <<components, storages, pending, storage_names, arg, row_seen,
                   component_values, nested_locals, storage_value, nested_error,
                   acquired>>

\* `component_by_id(&mut conn, &id).await?` completes; the block ends.
RootFetched(q) ==
    /\ pc[q] = "r_fetch"
    /\ \E store_ok \in BOOLEAN :
         LET res == component_by_id(components, id[q], store_ok)
             next_pc == IF res.ok THEN "r_ok"
                        ELSE IF res.err = "Store" THEN on_store_error("root")
                        ELSE "r_err"
         IN  /\ pc' = [pc EXCEPT ![q] = next_pc]
             /\ conns' = [conns EXCEPT ![q] = conn_after(next_pc, @)]
             /\ row_seen' = [row_seen EXCEPT ![q] =
                    IF ~store_ok THEN "unknown"
                    ELSE IF \E i \in 1..Len(components) : components[i].id = id[q]
                         THEN "row" ELSE "norow"]
             /\ IF res.ok
                THEN /\ component_values' = [component_values EXCEPT ![q] = res.val]
                     /\ root_outcome' = [root_outcome EXCEPT ![q] = "value"]
                     /\ UNCHANGED root_error
                ELSE /\ root_error' = [root_error EXCEPT ![q] = res.err]
                     /\ root_outcome' = [root_outcome EXCEPT ![q] =
                            IF next_pc = "r_err" THEN "error" ELSE @]
                     /\ UNCHANGED component_values
    /\ UNCHANGED <<components, storages, pending, storage_names, arg, id,
                   nested_locals, storage_value, nested_error, acquired, queried,
                   idle_held>>

-----------------------------------------------------------------------------
(* The nested `storage` resolver *)

\* `ctx.data::<Pool<Sqlite>>()?.acquire().await?` returns a connection.
NestedAcquire(q) ==
    /\ pc[q] = "r_ok"
    /\ CheckedOut < PoolSize
    /\ conns' = [conns EXCEPT ![q] = @ + 1]
    /\ acquired' = [acquired EXCEPT ![q].nested = @ + 1]
    /\ pc' = [pc EXCEPT ![q] = "n_conn"]
    /\ UNCHANGED <<components, storages, pending, storage_names, arg, id,
                   root_outcome, root_error, row_seen, component_values,
                   nested_locals, storage_value, nested_error, queried, idle_held>>

\* `acquire().await?` fails (pool closed or timed out).
NestedAcquireFails(q) ==
    /\ pc[q] = "r_ok"
    /\ acquired' = [acquired EXCEPT ![q].nested = @ + 1]
    /\ pc' = [pc EXCEPT ![q] = on_store_error("nested")]
    /\ conns' = [conns EXCEPT ![q] = conn_after(on_store_error("nested"), @)]
    /\ nested_error' = [nested_error EXCEPT ![q] = "Store"]
    /\ UNCHANGED <<components, storages, pending, storage_names, arg, id,
                   root_outcome, root_error, row_seen, component_values,
                   nested_locals, storage_value, queried, idle_held>>

\* The parent's fields are extracted and its storage_definition parsed, then the
\* storage query is sent.
NestedIssue(q) ==
    /\ pc[q] = "n_conn"
    /\ idle_held' = IF conns[q] > 0 THEN idle_held \cup {q} ELSE idle_held
    /\ LET prepared == nested_prepare(component_values[q])
       IN  IF prepared.ok
           THEN /\ nested_locals' = [nested_locals EXCEPT ![q] = prepared.val]
                /\ queried' = [queried EXCEPT ![q].nested = @ + 1]
                /\ pc' = [pc EXCEPT ![q] = "n_fetch"]
                /\ conns' = [conns EXCEPT ![q] = conn_after("n_fetch", @)]
                /\ UNCHANGED nested_error
           ELSE /\ pc' = [pc EXCEPT ![q] = "n_err"]
                /\ conns' = [conns EXCEPT ![q] = conn_after("n_err", @)]
                /\ nested_error' = [nested_error EXCEPT ![q] = prepared.err]
                /\ UNCHANGED <<nested_locals, queried>>
    /\ UNCHANGED <<components, storages, pending, storage_names, arg, id,
                   root_outcome, root_error, row_seen, component_values,
                   storage_value, acquired>>

\* `storage_by_column(...).await?` completes; the block ends.
NestedFetched(q) ==
    /\ pc[q] = "n_fetch"
    /\ \E store_ok \in BOOLEAN :
         LET locals == nested_locals[q]
             res == storage_by_column(storages, "component_id", locals.id,
                                      locals.type_name, locals.field_type_mapping,
                                      store_ok)
             next_pc == IF res.ok THEN "n_ok"
                        ELSE IF res.err = "Store" THEN on_store_error("nested")
                        ELSE "n_err"
         IN  /\ pc' = [pc EXCEPT ![q] = next_pc]
             /\ conns' = [conns EXCEPT ![q] = conn_after(next_pc, @)]
             /\ IF res.ok
                THEN /\ storage_value' = [storage_value EXCEPT ![q] =
                                             nested_result(res.val, locals)]
                     /\ UNCHANGED nested_error
                ELSE /\ nested_error' = [nested_error EXCEPT ![q] = res.err]
                     /\ UNCHANGED storage_value
    /\ UNCHANGED <<components, storages, pending, storage_names, arg, id,
                   root_outcome, root_error, row_seen, component_values,
                   nested_locals, acquired, queried, idle_held>>

-----------------------------------------------------------------------------
(* Specifications *)

Next ==
    \/ IndexComponent
    \/ RebuildSchema
    \/ \E q \in Queries : RootAcquire(q)
    \/ \E q \in Queries : RootAcquireFails(q)
    \/ \E q \in Queries : RootIssue(q)
    \/ \E q \in Queries : RootFetched(q)
    \/ \E q \in Queries : NestedAcquire(q)
    \/ \E q \in Queries : NestedAcquireFails(q)
    \/ \E q \in Queries : NestedIssue(q)
    \/ \E q \in Queries : NestedFetched(q)

Spec == Init /\ [][Next]_vars

\* The executor polls every ready future and the pool hands a free connection
\* to a waiter; the store answers every query it is sent.
Fairness ==
    \A q \in Queries :
        /\ WF_vars(RootAcquire(q))
        /\ WF_vars(RootIssue(q))
        /\ WF_vars(RootFetched(q))
        /\ WF_vars(NestedAcquire(q))
        /\ WF_vars(NestedIssue(q))
        /\ WF_vars(NestedFetched(q))

FairSpec == Spec /\ Fairness

-----------------------------------------------------------------------------
(* Properties *)

Done == {"r_err", "n_ok", "n_err"}

AllDone == \A q \in Queries : pc[q] \in Done \cup {"off"}

RowOf(key) == components[CHOOSE i \in 1..Len(components) : components[i].id = key]

ComponentKeys ==
    <<"id", "name", "address", "classHash", "transactionHash", "storageDefinition",
      "createdAt">>

\* C1: an id with no matching row, on a working connection, resolves to null
\* with no error.
C1_NotFoundResolvesNull ==
    \A q \in Queries :
        row_seen[q] = "norow" => root_outcome[q] = "null" /\ root_error[q] = ""

\* C2: a matched row with every column populated resolves to a value mapping
\* whose keys are, in order, those of the declared field type mapping, each
\* string column carried unchanged.
C2_CompleteValueMapping ==
    \A q \in Queries :
        (row_seen[q] = "row" /\ RowOf(id[q]).nulls = {}) =>
            LET row == RowOf(id[q])
                vm == component_values[q]
            IN  /\ root_outcome[q] = "value"
                /\ Keys(vm) = ComponentKeys
                /\ Keys(vm) = Keys(field_type_mapping)
                /\ \A i \in 1..Len(vm) : vm[i][2].kind = "String"
                /\ Get(vm, "id").str = row.id
                /\ Get(vm, "name").str = row.name
                /\ Get(vm, "address").str = row.address
                /\ Get(vm, "classHash").str = row.class_hash
                /\ Get(vm, "transactionHash").str = row.transaction_hash
                /\ Get(vm, "storageDefinition").str = row.storage_definition

C2_Witness ==
    \E q \in Queries :
        /\ root_outcome[q] = "value"
        /\ id[q] = Id2
        /\ Get(component_values[q], "transactionHash").str = "0xf2"

\* C3: a resolved storage value is tagged with the parent component's name,
\* and when that name is among storage_names the tag is a possible type of
\* the Storage union.
C3_TagIsParentName ==
    \A q \in Queries :
        storage_value[q].resolved =>
            LET parent_name == Get(component_values[q], "name").str
            IN  /\ storage_value[q].type_tag = parent_name
                /\ storage_value[q].type_tag = nested_locals[q].type_name
                /\ parent_name \in Range(storage_names) =>
                       storage_value[q].type_tag
                           \in Range(unions(storage_names)[1].possible_types)

C3_Witness ==
    \E q \in Queries :
        /\ storage_value[q].resolved
        /\ storage_value[q].type_tag = NameMv
        /\ NameMv \in Range(unions(storage_names)[1].possible_types)

\* C4: unions() is one union named Storage whose possible types are exactly
\* the type names of storage_names, one each; a name the store gained after
\* the build is not among them.
C4_UnionIsBuildTimeNames ==
    LET u == unions(storage_names)
    IN  /\ Len(u) = 1
        /\ u[1].name = "Storage"
        /\ Range(u[1].possible_types)
               = {format_name(n).type_name : n \in Range(storage_names)}
        /\ Len(u[1].possible_types) = Cardinality(Range(storage_names))
        /\ \A i \in 1..Len(components) :
               components[i].name \notin Range(storage_names) =>
                   format_name(components[i].name).type_name
                       \notin Range(u[1].possible_types)

C4_Witness ==
    /\ storage_names = <<NamePos, NameMv>>
    /\ \E i \in 1..Len(components) : components[i].name = NameSc
    /\ NameSc \notin Range(unions(storage_names)[1].possible_types)

KeyBound(q) == queried[q].root >= 1

Unquoted(s) == \A i \in 1..Len(s) : s[i] \notin {DQ, SQ}

\* C5: a quoted id and the same id without quotes are bound as the same
\* lookup key and resolve to the same row; an unquoted id is bound unchanged.
C5_QuotedAndPlainSameKey ==
    /\ \A p, q \in Queries :
           (/\ KeyBound(p) /\ KeyBound(q)
            /\ arg[p].str \in {Wrap(arg[q].str, DQ), Wrap(arg[q].str, SQ)}) =>
               /\ id[p] = id[q]
               /\ (root_outcome[p] = "value" /\ root_outcome[q] = "value") =>
                      component_values[p] = component_values[q]
    /\ \A q \in Queries :
           (KeyBound(q) /\ Unquoted(arg[q].str)) => id[q] = arg[q].str

C5_Witness ==
    \E p, q \in Queries :
        /\ arg[q].str = Id2
        /\ arg[p].str = Wrap(Id2, DQ)
        /\ root_outcome[p] = "value" /\ root_outcome[q] = "value"
        /\ component_values[p] = component_values[q]

\* C6 as stated: a connection is checked out only while the resolver's one
\* fetch runs, never while it does store-free work; the number checked out
\* never exceeds the pool size and is zero once every resolution finished.
C6_HeldOnlyDuringFetch ==
    /\ \A q \in Queries : conns[q] > 0 => pc[q] \in {"r_fetch", "n_fetch"}
    /\ idle_held = {}
    /\ CheckedOut <= PoolSize
    /\ AllDone => CheckedOut = 0

\* C6 amended: a resolver holds exactly one connection from its acquisition
\* until its block ends, on any path, and none otherwise; the number checked
\* out never exceeds the pool size and is zero once every resolution finished.
C6_HeldForResolverBlock ==
    /\ \A q \in Queries : conns[q] = IF pc[q] \in Holding THEN 1 ELSE 0
    /\ CheckedOut <= PoolSize
    /\ AllDone => CheckedOut = 0

C6_Witness ==
    \E q \in Queries :
        /\ pc[q] = "n_err"
        /\ nested_error[q] = "ParseError"
        /\ q \in idle_held
        /\ conns[q] = 0

MalformedParent(parent) ==
    \/ \E k \in {"id", "storageDefinition", "name"} : ~extract(parent, k).ok
    \/ ~type_mapping_from_definition(extract(parent, "storageDefinition").val).ok

\* C7: when a field of the parent cannot be extracted or its
\* storage_definition cannot be parsed, the storage field ends with that
\* error, with no storage value and without the storage query being sent.
C7_ParseErrorsSurface ==
    \A q \in Queries :
        (pc[q] \in {"n_fetch", "n_ok", "n_err"} /\ acquired[q].nested = 1
         /\ nested_error[q] # "Store" /\ MalformedParent(component_values[q])) =>
            /\ pc[q] = "n_err"
            /\ nested_error[q] \in {"ParseError", "TypeMismatch", "FieldMissing"}
            /\ storage_value[q] = NoStorage
            /\ queried[q].nested = 0

C7_Witness ==
    \E q \in Queries :
        /\ pc[q] = "n_err"
        /\ nested_error[q] = "ParseError"
        /\ id[q] = Id3
        /\ queried[q].nested = 0

\* C8: each resolver attempts at most one acquisition and one query, and a
\* store failure ends it with that error, with no value and no further store
\* operation.
C8_StoreErrorNoRetry ==
    \A q \in Queries :
        /\ acquired[q].root <= 1 /\ acquired[q].nested <= 1
        /\ queried[q].root <= 1 /\ queried[q].nested <= 1
        /\ root_error[q] = "Store" =>
               /\ pc[q] = "r_err"
               /\ root_outcome[q] = "error"
               /\ component_values[q] = <<>>
        /\ nested_error[q] = "Store" =>
               /\ pc[q] = "n_err"
               /\ storage_value[q] = NoStorage

C8_Witness ==
    \E p, q \in Queries :
        /\ root_error[p] = "Store" /\ queried[p].root = 1
        /\ nested_error[q] = "Store" /\ queried[q].nested = 0

DigitVal(c) == CHOOSE d \in 0..9 : Digits[d + 1] = c

IsDigit(c) == c \in Range(Digits)

Num2(t, i) == 10 * DigitVal(t[i]) + DigitVal(t[i + 1])

\* C9: createdAt is the stored instant as YYYY-MM-DDTHH:MM:SSZ: second
\* precision, no fraction, no numeric offset, a trailing Z.
C9_CreatedAtRfc3339Z ==
    \A q \in Queries :
        root_outcome[q] = "value" =>
            LET t == Get(component_values[q], "createdAt").str
                at == RowOf(id[q]).created_at
            IN  /\ Len(t) = 20
                /\ t[20] = "Z"
                /\ t[5] = "-" /\ t[8] = "-" /\ t[11] = "T"
                /\ t[14] = ":" /\ t[17] = ":"
                /\ \A i \in {1, 2, 3, 4, 6, 7, 9, 10, 12, 13, 15, 16, 18, 19} :
                       IsDigit(t[i])
                /\ 100 * Num2(t, 1) + Num2(t, 3) = at.year
                /\ Num2(t, 6) = at.month
                /\ Num2(t, 9) = at.day
                /\ Num2(t, 12) = at.hour
                /\ Num2(t, 15) = at.minute
                /\ Num2(t, 18) = at.second
                /\ id[q] = Id1 =>
                       t = <<"2", "0", "2", "4", "-", "0", "1", "-", "0", "1", "T",
                             "0", "0", ":", "0", "0", ":", "0", "0", "Z">>

C9_Witness ==
    \E q \in Queries :
        /\ root_outcome[q] = "value"
        /\ RowOf(id[q]).created_at.nano # 0
        /\ Get(component_values[q], "createdAt").str
               = <<"2", "0", "2", "3", "-", "1", "2", "-", "3", "1", "T",
                   "2", "3", ":", "5", "9", ":", "5", "9", "Z">>

\* C10: a resolver never waits for a connection while holding one, and under
\* fair scheduling every query eventually completes with a value or an error.
C10_NoHoldAndWaitAllComplete ==
    /\ [](\A q \in Queries : pc[q] \in {"r_start", "r_ok"} => conns[q] = 0)
    /\ <>AllDone

C10_Witness ==
    \E p, q \in Queries :
        /\ p # q
        /\ pc[p] = "r_ok"
        /\ conns[q] > 0
        /\ CheckedOut = PoolSize

====
